---- MODULE Spec2Model ----
(***************************************************************************)
(* A model of PCG4YA.py: an endless 2D platformer.  Player, Platform,      *)
(* PlatformGenerator, Camera and the Game session controller.              *)
(*                                                                         *)
(* Numbers.  Platform coordinates are Python ints and are kept in whole    *)
(* units.  Player and camera coordinates and velocities are Python floats  *)
(* (GRAVITY = 0.7, 1.5 * JUMP_STRENGTH = -22.5, 20 / sqrt(2)); they are    *)
(* kept in fixed point, U parts per unit.  difficulty is a float in        *)
(* [0, 5] and is kept in thousandths (new_x is an int, so new_x / 1000 is  *)
(* a whole number of thousandths).                                         *)
(*                                                                         *)
(* The random module.  Python's global Mersenne Twister is replaced by a   *)
(* 16-bit linear congruential generator with the same interface: one       *)
(* process-wide state `rng`, random.seed(s) sets it from s alone, and each *)
(* draw advances it and returns a function of it.                          *)
(***************************************************************************)
EXTENDS Integers, Sequences, FiniteSets, TLC

VARIABLES
    rng,        \* state of the process-wide random stream (module random)
    player,     \* Game.player: a Player record
    generator,  \* Game.generator: a PlatformGenerator record
    camera,     \* Game.camera: a Camera record
    score,      \* Game.score
    game_over,  \* Game.game_over
    keys,       \* the key snapshot read by the last update
    op,         \* the operation that made the last step
    ticks,      \* number of updates made in this session
    changes,    \* number of times the held keys changed in this session
    resets,     \* number of reset_game() calls after the first
    air,        \* ticks ended in the air since the player last ended one on the
                \* ground without a jump since; -1 when there is no such run
    jumped,     \* whether the jump branch of Player.update ran in the last update
    calls,      \* number of direct generate_platform() calls on the generator
    old_x,      \* generator.last_platform_x before the last operation on it
    insts,      \* stand-alone PlatformGenerator instances, by instance id
    last_dash,  \* the last dash started: its direction and the ticks since
    platform_log, \* of the one platform driven on its own: the Platform.update
                \* calls since its countdown was first set (-1 before) and
                \* whether the last Platform.update reversed its direction
    landings    \* the platforms (by list index) the last Player.update tested
                \* whose collision with the player as moved met the landing
                \* condition

vars == <<rng, player, generator, camera, score, game_over, keys, op, ticks,
          changes, resets, air, jumped, calls, old_x, insts, last_dash, landings,
          platform_log>>

----------------------------------------------------------------------------
(* Constants of the program *)

\* fixed-point scale of the float quantities: parts per unit
U == 1000

SCREEN_WIDTH == 1000
SCREEN_HEIGHT == 600

\* GRAVITY = 0.7, in parts per unit
GRAVITY == 700
\* PLAYER_SPEED = 6, in whole units
PLAYER_SPEED == 6
\* JUMP_STRENGTH = -15, in whole units
JUMP_STRENGTH == -15
DASH_SPEED == 20
DASH_DURATION == 10
COYOTE_TIME == 6
\* self.dash_cooldown = 60
DASH_COOLDOWN == 60
\* self.crumble_timer = 30
CRUMBLE_TIME == 30
\* the 5-unit landing tolerance of handle_collision
LAND_TOLERANCE == 5
\* Player.width, Player.height, Platform.height
PLAYER_WIDTH == 30
PLAYER_HEIGHT == 40
PLATFORM_HEIGHT == 20
\* for _ in range(15)
INITIAL_PLATFORMS == 15
\* difficulty = min(new_x / 1000, 5), in thousandths
MAX_DIFFICULTY == 5000
\* p.x > camera_x - 500 and last_platform_x < camera_x + SCREEN_WIDTH + 500
PRUNE_MARGIN == 500
\* random.randint(0, 1000000)
MAX_SEED == 1000000

NORMAL == "NORMAL"
CRUMBLING == "CRUMBLING"
BOUNCY == "BOUNCY"
MOVING == "MOVING"

PlatformType == {NORMAL, CRUMBLING, BOUNCY, MOVING}

----------------------------------------------------------------------------
(* Arithmetic helpers *)

Max(a, b) == IF a >= b THEN a ELSE b
Min(a, b) == IF a <= b THEN a ELSE b
Abs(a) == IF a >= 0 THEN a ELSE -a

\* Python's int(): truncation toward zero of n / d, for d > 0
TruncDiv(n, d) == IF n >= 0 THEN n \div d ELSE -((-n) \div d)

----------------------------------------------------------------------------
(* The random module *)

\* modulus of the stand-in generator: raw draws are 0 .. RandMod - 1
RandMod == 65536

\* one step of the stream
NextRng(s) == (s * 25173 + 13849) % RandMod

\* random.seed(s): the state depends on s alone
SeedRng(s) == ((s % RandMod) * 20077 + 2531) % RandMod

\* random.randint(a, b) of the raw draw r: spread over a .. b (a range wider
\* than the raw draws is covered in equal steps)
RandInt(r, a, b) ==
    IF b - a + 1 <= RandMod
    THEN a + (r * (b - a + 1)) \div RandMod
    ELSE a + r * ((b - a + 1) \div RandMod)

\* random.random() of the raw draw r is r / RandMod; the comparison
\* rand_val < n / 100000 is made exactly, in integers (both sides of
\* r * 100000 < n * RandMod divided by 32)
RandomBelow(r, n) == r * (100000 \div 32) < n * (RandMod \div 32)

----------------------------------------------------------------------------
(* Platform *)

\* Platform.__init__.  The four Moving-platform attributes exist in Python
\* only on Moving platforms; here every record carries them and only
\* Moving platforms read them.
Platform(x, y, width, platform_type) ==
    [ x |-> x, y |-> y, width |-> width, height |-> PLATFORM_HEIGHT,
      platform_type |-> platform_type, crumble_timer |-> 0, active |-> TRUE,
      original_y |-> y, move_range |-> 100, move_speed |-> 2, move_direction |-> 1 ]

\* the Crumbling half of Platform.update
CrumbleStep(p) ==
    IF p.platform_type = CRUMBLING /\ p.crumble_timer > 0
    THEN [p EXCEPT !.crumble_timer = p.crumble_timer - 1,
                   !.active = IF p.crumble_timer - 1 <= 0 THEN FALSE ELSE p.active]
    ELSE p

\* a variant that turns round on reaching the range
TurnAtRange(p) ==
    IF p.platform_type = MOVING
    THEN LET ny == p.y + p.move_speed * p.move_direction
         IN [p EXCEPT !.y = ny,
                      !.move_direction = IF Abs(ny - p.original_y) >= p.move_range
                                         THEN -p.move_direction
                                         ELSE p.move_direction]
    ELSE p

\* the Moving half of Platform.update
MoveStep(p) ==
    IF p.platform_type = MOVING
    THEN LET ny == p.y + p.move_speed * p.move_direction
         IN [p EXCEPT !.y = ny,
                      !.move_direction = IF Abs(ny - p.original_y) > p.move_range
                                         THEN -p.move_direction
                                         ELSE p.move_direction]
    ELSE p

\* Platform.update
Platform_update(p) == MoveStep(CrumbleStep(p))

\* a variant that restarts a running countdown
RestartCrumble(p) == [p EXCEPT !.crumble_timer = CRUMBLE_TIME]

\* Platform.start_crumble
start_crumble(p) ==
    IF p.crumble_timer = 0 THEN [p EXCEPT !.crumble_timer = CRUMBLE_TIME] ELSE p

----------------------------------------------------------------------------
(* PlatformGenerator *)

\* int(self.difficulty * k) for a difficulty d in thousandths.  The float
\* product 4.1 * 30 is 122.99999999999999, so int() gives 122 there; for
\* every other frontier 0 .. 12000 and k in {20, 30, 40} the float result
\* is the exact floor.
IntScale(d, k) == IF d = 4100 /\ k = 30 THEN 122 ELSE (d * k) \div 1000

\* PlatformGenerator.choose_platform_type, r the raw draw of random.random()
\* (drawn only when difficulty >= 0.5)
choose_platform_type(difficulty, r) ==
    IF difficulty < 500 THEN NORMAL
    ELSE IF RandomBelow(r, 50000) THEN NORMAL
    ELSE IF RandomBelow(r, 65000 + difficulty * 5) THEN CRUMBLING
    ELSE IF RandomBelow(r, 80000 + difficulty * 3) THEN BOUNCY
    ELSE MOVING

\* a variant without the cap at 5
DifficultyUncapped(new_x) == new_x

\* min(new_x / 1000, 5), in thousandths
DifficultyOf(new_x) == Min(new_x, MAX_DIFFICULTY)

\* generate_platform: horizontal spacing, r the raw draw
PlatformSpacing(difficulty, r) ==
    LET base_spacing == 150
        spacing_variance == 50 + IntScale(difficulty, 30)
    IN Max(80, base_spacing + RandInt(r, -50, spacing_variance))

\* generate_platform: vertical offset, r the raw draw
VerticalOffset(difficulty, r) ==
    LET vertical_variance == 80 + IntScale(difficulty, 40)
    IN RandInt(r, -vertical_variance, vertical_variance)

\* a variant without the floor at 60
PlatformWidthNoFloor(difficulty, r) ==
    LET base_width == 150
        width_reduction == IntScale(difficulty, 20)
    IN base_width - width_reduction + RandInt(r, -30, 30)

\* generate_platform: platform width, r the raw draw
PlatformWidth(difficulty, r) ==
    LET base_width == 150
        width_reduction == IntScale(difficulty, 20)
    IN Max(60, base_width - width_reduction + RandInt(r, -30, 30))

\* PlatformGenerator.generate_platform, d the raw draws in call order:
\* d[1] spacing, d[2] vertical offset, d[3] width, d[4] type
generate_platform(g, d) ==
    LET spacing == PlatformSpacing(g.difficulty, d[1])
        vertical_offset == VerticalOffset(g.difficulty, d[2])
        new_x == g.last_platform_x + spacing
        new_y == Max(150, Min(g.last_platform_y + vertical_offset, SCREEN_HEIGHT - 100))
        width == PlatformWidth(g.difficulty, d[3])
        platform_type == choose_platform_type(g.difficulty, d[4])
    IN [g EXCEPT !.platforms = Append(g.platforms, Platform(new_x, new_y, width, platform_type)),
                 !.last_platform_x = new_x,
                 !.last_platform_y = new_y,
                 !.difficulty = DifficultyOf(new_x)]

\* generate_platform drawing from the process-wide stream s: three randint
\* draws, and one random() draw when difficulty >= 0.5.  The result holds
\* the generator and the stream after the call.
GenerateFromStream(g, s) ==
    LET r1 == NextRng(s)
        r2 == NextRng(r1)
        r3 == NextRng(r2)
        r4 == NextRng(r3)
    IN [ g |-> generate_platform(g, <<r1, r2, r3, r4>>),
         rng |-> IF g.difficulty < 500 THEN r3 ELSE r4 ]

\* a variant whose starting platform is placed by the seed
SeededStartingPlatform(g) ==
    [g EXCEPT !.platforms = Append(g.platforms,
                                   Platform(0, 400 - (g.seed % 2), 250, NORMAL)),
              !.last_platform_x = 0,
              !.last_platform_y = 400]

\* PlatformGenerator.generate_starting_platform
generate_starting_platform(g) ==
    [g EXCEPT !.platforms = Append(g.platforms, Platform(0, 400, 250, NORMAL)),
              !.last_platform_x = 0,
              !.last_platform_y = 400]

\* for _ in range(n): self.generate_platform()
RECURSIVE GenerateN(_, _, _)
GenerateN(g, s, n) ==
    IF n = 0 THEN [g |-> g, rng |-> s]
    ELSE LET r == GenerateFromStream(g, s) IN GenerateN(r.g, r.rng, n - 1)

\* seed=None
NoSeed == -1

\* self.seed = seed if seed else random.randint(0, 1000000): None and 0 are
\* both falsy, and the replacement seed is drawn from the stream s
ChosenSeed(seed, s) ==
    IF seed = NoSeed \/ seed = 0 THEN RandInt(NextRng(s), 0, MAX_SEED) ELSE seed

\* PlatformGenerator.__init__ before it generates: the fields as first assigned
EmptyGenerator(chosen) ==
    [ seed |-> chosen, platforms |-> << >>, last_platform_x |-> 0,
      last_platform_y |-> 400, difficulty |-> 0 ]

\* PlatformGenerator.__init__(seed) with the process-wide stream in state s.
\* The result holds the new generator and the stream after construction.
PlatformGenerator(seed, s) ==
    LET chosen == ChosenSeed(seed, s)
    IN GenerateN(generate_starting_platform(EmptyGenerator(chosen)), SeedRng(chosen),
                 INITIAL_PLATFORMS)

\* a variant with the comparison turned round
PruneKeepingBehind(platforms, camera_x) ==
    SelectSeq(platforms, LAMBDA p : p.x * U <= camera_x - PRUNE_MARGIN * U)

\* [p for p in self.platforms if p.x > camera_x - 500], camera_x in parts
Prune(platforms, camera_x) ==
    SelectSeq(platforms, LAMBDA p : p.x * U > camera_x - PRUNE_MARGIN * U)

\* a variant that stops at the right edge of the screen
RECURSIVE GenerateToScreenEdge(_, _, _)
GenerateToScreenEdge(g, s, camera_x) ==
    IF g.last_platform_x * U < camera_x + SCREEN_WIDTH * U
    THEN LET r == GenerateFromStream(g, s) IN GenerateToScreenEdge(r.g, r.rng, camera_x)
    ELSE [g |-> g, rng |-> s]

\* while self.last_platform_x < camera_x + SCREEN_WIDTH + 500: generate_platform()
RECURSIVE GenerateAhead(_, _, _)
GenerateAhead(g, s, camera_x) ==
    IF g.last_platform_x * U < camera_x + (SCREEN_WIDTH + PRUNE_MARGIN) * U
    THEN LET r == GenerateFromStream(g, s) IN GenerateAhead(r.g, r.rng, camera_x)
    ELSE [g |-> g, rng |-> s]

\* for platform in self.platforms: platform.update()
UpdateAll(platforms) == [i \in 1..Len(platforms) |-> Platform_update(platforms[i])]

\* PlatformGenerator.update(player), px = player.x in parts, s the stream
PlatformGenerator_update(g, px, s) ==
    LET camera_x == px - (SCREEN_WIDTH \div 3) * U
        pruned == [g EXCEPT !.platforms = Prune(g.platforms, camera_x)]
        r == GenerateAhead(pruned, s, camera_x)
    IN [ g |-> [r.g EXCEPT !.platforms = UpdateAll(r.g.platforms)], rng |-> r.rng ]

\* PlatformGenerator.get_active_platforms
get_active_platforms(g) == SelectSeq(g.platforms, LAMBDA p : p.active)

----------------------------------------------------------------------------
(* Player *)

\* a key snapshot: pygame.key.get_pressed() restricted to the keys read
Keys(left, right, up, down, z, x) ==
    [ left |-> left, right |-> right, up |-> up, down |-> down, z |-> z, x |-> x ]

\* Player.__init__(x, y), x and y in whole units
Player(x, y) ==
    [ x |-> x * U, y |-> y * U, width |-> PLAYER_WIDTH, height |-> PLAYER_HEIGHT,
      vel_x |-> 0, vel_y |-> 0, on_ground |-> FALSE, dash_timer |-> 0,
      dash_cooldown |-> 0, dashing |-> FALSE, coyote_timer |-> 0 ]

\* Player.update: horizontal movement
HorizontalStep(p, k) ==
    IF ~p.dashing
    THEN [p EXCEPT !.vel_x = IF k.left THEN -PLAYER_SPEED * U
                             ELSE IF k.right THEN PLAYER_SPEED * U
                             ELSE 0]
    ELSE p

\* Player.update: update coyote time
CoyoteStep(p) ==
    IF p.on_ground THEN [p EXCEPT !.coyote_timer = COYOTE_TIME]
    ELSE IF p.coyote_timer > 0 THEN [p EXCEPT !.coyote_timer = p.coyote_timer - 1]
    ELSE p

\* the jump condition of Player.update
JumpFires(p, k) == k.z /\ p.coyote_timer > 0 /\ p.vel_y >= 0

\* Player.update: jumping
JumpStep(p, k) ==
    IF JumpFires(p, k)
    THEN [p EXCEPT !.vel_y = JUMP_STRENGTH * U, !.coyote_timer = 0, !.on_ground = FALSE]
    ELSE p

\* the dash condition of Player.update
DashFires(p, k) == k.x /\ p.dash_cooldown <= 0 /\ ~p.dashing

\* dash direction from the arrow keys, defaulting to right
DashX(k) ==
    LET dx == IF k.left THEN -1 ELSE IF k.right THEN 1 ELSE 0
        dy == IF k.up THEN -1 ELSE IF k.down THEN 1 ELSE 0
    IN IF dx = 0 /\ dy = 0 THEN 1 ELSE dx

DashY(k) == IF k.up THEN -1 ELSE IF k.down THEN 1 ELSE 0

\* (d / magnitude) * DASH_SPEED in parts, d one component of the direction
\* and diagonal telling whether the other one is non-zero: 20 on an axis,
\* 20 / sqrt(2) = 14.142... on a diagonal
DashComponent(d, diagonal) ==
    IF d = 0 THEN 0
    ELSE IF diagonal THEN d * 14142
    ELSE d * DASH_SPEED * U

\* Player.update: dash mechanic
DashStart(p, k) ==
    IF DashFires(p, k)
    THEN LET diagonal == DashX(k) # 0 /\ DashY(k) # 0
         IN [p EXCEPT !.dashing = TRUE,
                      !.dash_timer = DASH_DURATION,
                      !.dash_cooldown = DASH_COOLDOWN,
                      !.vel_x = DashComponent(DashX(k), diagonal),
                      !.vel_y = DashComponent(DashY(k), diagonal)]
    ELSE p

\* a variant that ends the dash one update after its timer ran out
DashEndsLate(p) ==
    IF p.dashing
    THEN IF p.dash_timer - 1 < 0
         THEN [p EXCEPT !.dash_timer = 0,
                        !.dashing = FALSE,
                        !.vel_x = IF p.vel_x > 0 THEN PLAYER_SPEED * U
                                  ELSE -PLAYER_SPEED * U]
         ELSE [p EXCEPT !.dash_timer = p.dash_timer - 1]
    ELSE p

\* Player.update: handle dash
DashStep(p) ==
    IF p.dashing
    THEN IF p.dash_timer - 1 <= 0
         THEN [p EXCEPT !.dash_timer = p.dash_timer - 1,
                        !.dashing = FALSE,
                        !.vel_x = IF p.vel_x > 0 THEN PLAYER_SPEED * U
                                  ELSE -PLAYER_SPEED * U]
         ELSE [p EXCEPT !.dash_timer = p.dash_timer - 1]
    ELSE p

\* a variant whose cooldown waits for the dash to end
CooldownAfterDash(p) ==
    IF p.dash_cooldown > 0 /\ ~p.dashing
    THEN [p EXCEPT !.dash_cooldown = p.dash_cooldown - 1]
    ELSE p

\* Player.update: dash cooldown
CooldownStep(p) ==
    IF p.dash_cooldown > 0 THEN [p EXCEPT !.dash_cooldown = p.dash_cooldown - 1] ELSE p

\* Player.update: apply gravity
GravityStep(p) == IF ~p.dashing THEN [p EXCEPT !.vel_y = p.vel_y + GRAVITY] ELSE p

\* Player.update: apply velocity
MoveStepPlayer(p) == [p EXCEPT !.x = p.x + p.vel_x, !.y = p.y + p.vel_y]

\* Player.check_collision
check_collision(p, platform) ==
    /\ p.x < (platform.x + platform.width) * U
    /\ p.x + p.width * U > platform.x * U
    /\ p.y < (platform.y + platform.height) * U
    /\ p.y + p.height * U > platform.y * U

\* the landing condition of Player.handle_collision
Lands(p, platform) ==
    /\ p.vel_y > 0
    /\ p.y + p.height * U - p.vel_y <= (platform.y + LAND_TOLERANCE) * U

\* a variant that lands on every platform type alike
PlainLanding(p, platform) ==
    IF /\ p.vel_y > 0
       /\ p.y + p.height * U - p.vel_y <= (platform.y + LAND_TOLERANCE) * U
    THEN [p EXCEPT !.y = (platform.y - p.height) * U,
                   !.vel_y = 0,
                   !.on_ground = TRUE]
    ELSE p

\* Player.handle_collision: the player after the collision
handle_collision(p, platform) ==
    IF Lands(p, platform)
    THEN IF platform.platform_type = BOUNCY
         THEN [p EXCEPT !.y = (platform.y - p.height) * U,
                        !.vel_y = (JUMP_STRENGTH * U * 3) \div 2,
                        !.on_ground = FALSE]
         ELSE [p EXCEPT !.y = (platform.y - p.height) * U,
                        !.vel_y = 0,
                        !.on_ground = TRUE]
    ELSE p

\* Player.handle_collision: the platform after the collision
CollidedPlatform(p, platform) ==
    IF Lands(p, platform) /\ platform.platform_type = CRUMBLING
    THEN start_crumble(platform)
    ELSE platform

\* a variant that walks the list from its end
RECURSIVE CollideBackwards(_, _, _)
CollideBackwards(p, platforms, i) ==
    IF i > Len(platforms) THEN [player |-> p, platforms |-> platforms]
    ELSE LET j == Len(platforms) - i + 1
         IN IF platforms[j].active /\ check_collision(p, platforms[j])
            THEN CollideBackwards(handle_collision(p, platforms[j]),
                                  [platforms EXCEPT ![j] = CollidedPlatform(p, platforms[j])],
                                  i + 1)
            ELSE CollideBackwards(p, platforms, i + 1)

\* for platform in platforms: if self.check_collision(platform): ..., over
\* the live list from index i on; inactive platforms are not in the list
\* get_active_platforms() passes
RECURSIVE CollideFrom(_, _, _)
CollideFrom(p, platforms, i) ==
    IF i > Len(platforms) THEN [player |-> p, platforms |-> platforms]
    ELSE IF platforms[i].active /\ check_collision(p, platforms[i])
         THEN CollideFrom(handle_collision(p, platforms[i]),
                          [platforms EXCEPT ![i] = CollidedPlatform(p, platforms[i])],
                          i + 1)
         ELSE CollideFrom(p, platforms, i + 1)

\* Player.update up to and including the move
Moved(p, k) ==
    MoveStepPlayer(GravityStep(CooldownStep(DashStep(DashStart(
        JumpStep(CoyoteStep(HorizontalStep(p, k)), k), k)))))

\* a variant that keeps on_ground from the update before
UpdateKeepingGround(p, k, platforms) == CollideFrom(Moved(p, k), platforms, 1)

\* Player.update(keys, platforms), platforms the generator's live list.  The
\* result holds the player and the live list after the call.
Player_update(p, k, platforms) ==
    CollideFrom([Moved(p, k) EXCEPT !.on_ground = FALSE], platforms, 1)

----------------------------------------------------------------------------
(* Camera *)

\* Camera.__init__
Camera == [ x |-> 0, y |-> 0, target_x |-> 0, target_y |-> 0 ]

\* (target - current) * self.smoothness, smoothness = 0.1, in parts
Smooth(d) == TruncDiv(d, 10)

\* Camera.update(player)
Camera_update(c, p) ==
    LET target_x == Max(0, p.x - (SCREEN_WIDTH \div 3) * U)
        target_y == p.y - (SCREEN_HEIGHT \div 2) * U
    IN [ x |-> c.x + Smooth(target_x - c.x),
         y |-> c.y + Smooth(target_y - c.y),
         target_x |-> target_x,
         target_y |-> target_y ]

\* Camera.get_y: int(self.y)
get_y(c) == TruncDiv(c.y, U)

----------------------------------------------------------------------------
(* Game *)

\* Game.reset_game with the process-wide stream in state s: the session
\* (player, generator, camera, score, game_over) and the stream afterwards
reset_game(s) ==
    LET r == NextRng(s)
        seed == RandInt(r, 0, MAX_SEED)
        made == PlatformGenerator(seed, r)
    IN [ player |-> Player(100, 300), generator |-> made.g, camera |-> Camera,
         score |-> 0, game_over |-> FALSE, rng |-> made.rng ]

\* self.player.y > self.camera.get_y() + SCREEN_HEIGHT + 100
FellOff(p, c) == p.y > (get_y(c) + SCREEN_HEIGHT + 100) * U

\* a variant that forgets the previous score
ScoreOfPosition(old, p) ==
    IF p.x >= 0 THEN p.x \div (10 * U) ELSE -((-p.x) \div (10 * U))

\* max(self.score, int(self.player.x / 10))
NewScore(old, p) == Max(old, TruncDiv(p.x, 10 * U))

\* Game.update past its game_over guard, on the session g (a record of
\* player, generator, camera, score, game_over, rng) with key snapshot k
RunningUpdate(g, k) ==
    LET gu == PlatformGenerator_update(g.generator, g.player.x, g.rng)
        pu == Player_update(g.player, k, gu.g.platforms)
        cam == Camera_update(g.camera, pu.player)
    IN [ player |-> pu.player,
         generator |-> [gu.g EXCEPT !.platforms = pu.platforms],
         camera |-> cam,
         score |-> NewScore(g.score, pu.player),
         game_over |-> FellOff(pu.player, cam),
         rng |-> gu.rng ]

\* a variant without the game_over guard
UnguardedUpdate(g, k) == RunningUpdate(g, k)

\* Game.update
Game_update(g, k) == IF g.game_over THEN g ELSE RunningUpdate(g, k)

----------------------------------------------------------------------------
(* The session: Game() and its main loop *)

\* bounds of the model
MaxTicks == 100
MaxKeyChanges == 1
MaxStart == 1
StartStep == 5
MaxResets == 1

NoKeys == Keys(FALSE, FALSE, FALSE, FALSE, FALSE, FALSE)

\* the key snapshots the model feeds to the game
KeySnapshots ==
    { NoKeys,
      Keys(TRUE, FALSE, FALSE, FALSE, FALSE, FALSE),    \* left
      Keys(FALSE, TRUE, FALSE, FALSE, FALSE, FALSE),    \* right
      Keys(FALSE, TRUE, FALSE, FALSE, TRUE, FALSE),     \* right + jump
      Keys(TRUE, FALSE, FALSE, FALSE, FALSE, TRUE) }    \* left + dash

\* the states the process-wide stream may be in when it is first used
StartStreams == {i * StartStep : i \in 0..MaxStart}

\* the session held in the variables
Session ==
    [ player |-> player, generator |-> generator, camera |-> camera,
      score |-> score, game_over |-> game_over, rng |-> rng ]

SetSession(g) ==
    /\ player' = g.player
    /\ generator' = g.generator
    /\ camera' = g.camera
    /\ score' = g.score
    /\ game_over' = g.game_over
    /\ rng' = g.rng

NoInsts == << >>

\* whether Player.update(p, k, ...) takes its jump branch
Jumps(p, k) == JumpFires(CoyoteStep(HorizontalStep(p, k)), k)

\* nothing was done to the platform yet
NoLog == [age |-> -1, reversed |-> FALSE]

\* no dash was started yet
NoDash == [x |-> 0, y |-> 0, age |-> -1]

\* whether Player.update(p, k, ...) takes its dash branch
Dashes(p, k) == DashFires(JumpStep(CoyoteStep(HorizontalStep(p, k)), k), k)

\* the arrow keys held as a direction: -1, 0 or 1 on each axis
HeldX(k) == IF k.left THEN -1 ELSE IF k.right THEN 1 ELSE 0

HeldY(k) == IF k.up THEN -1 ELSE IF k.down THEN 1 ELSE 0

\* the last dash after Player.update(p, k, ...): a dash started in it is
\* recorded with the direction held (straight right when none is) and age
\* 0, an earlier one is one tick older
DashAfter(d, p, k) ==
    IF Dashes(p, k)
    THEN [x |-> IF HeldX(k) = 0 /\ HeldY(k) = 0 THEN 1 ELSE HeldX(k),
          y |-> HeldY(k), age |-> 0]
    ELSE IF d.age = -1 THEN d
    ELSE [d EXCEPT !.age = d.age + 1]

\* the platforms of the list that Player.update(p, k, platforms) finds the
\* player, as moved, colliding with under the landing condition
Landings(p, k, platforms) ==
    LET m == Moved(p, k)
    IN { i \in 1..Len(platforms) :
           /\ platforms[i].active
           /\ check_collision(m, platforms[i])
           /\ Lands(m, platforms[i]) }

\* the run of airborne ticks after the update that took p to q
AirAfter(a, q, j) ==
    IF q.on_ground THEN 0
    ELSE IF j \/ a = -1 THEN -1
    ELSE a + 1

\* Game.__init__: reset_game()
Init ==
    \E s \in StartStreams, k \in KeySnapshots :
        LET g == reset_game(s)
        IN /\ player = g.player
           /\ generator = g.generator
           /\ camera = g.camera
           /\ score = g.score
           /\ game_over = g.game_over
           /\ rng = g.rng
           /\ keys = k
           /\ op = "reset"
           /\ ticks = 0
           /\ changes = 0
           /\ resets = 0
           /\ air = -1
           /\ jumped = FALSE
           /\ last_dash = NoDash
           /\ landings = {}
           /\ platform_log = NoLog
           /\ calls = 0
           /\ old_x = 0
           /\ insts = NoInsts

\* one iteration of Game.run with the keys k held: Game.update, which
\* returns at once ("skip") when game_over
Update(k) ==
    /\ ticks < MaxTicks
    /\ k = keys \/ changes < MaxKeyChanges
    /\ SetSession(Game_update(Session, k))
    /\ keys' = k
    /\ op' = IF game_over THEN "skip" ELSE "update"
    /\ ticks' = ticks + 1
    /\ changes' = IF k = keys THEN changes ELSE changes + 1
    /\ jumped' = (~game_over /\ Jumps(player, k))
    /\ air' = IF game_over THEN air ELSE AirAfter(air, player', jumped')
    /\ last_dash' = IF game_over THEN last_dash ELSE DashAfter(last_dash, player, k)
    /\ landings' = IF game_over THEN landings
                   ELSE Landings(player, k,
                                 PlatformGenerator_update(generator, player.x, rng).g.platforms)
    /\ UNCHANGED <<resets, calls, old_x, insts, platform_log>>

\* Game.handle_events: K_r while game_over
Reset ==
    /\ game_over
    /\ resets < MaxResets
    /\ SetSession(reset_game(rng))
    /\ \E k \in KeySnapshots : keys' = k
    /\ op' = "reset"
    /\ ticks' = 0
    /\ changes' = 0
    /\ resets' = resets + 1
    /\ air' = -1
    /\ jumped' = FALSE
    /\ last_dash' = NoDash
    /\ landings' = {}
    /\ UNCHANGED <<calls, old_x, insts, platform_log>>

Next ==
    \/ \E k \in KeySnapshots : Update(k)
    \/ Reset

Spec == Init /\ [][Next]_vars

----------------------------------------------------------------------------
(* Two PlatformGenerator instances sharing the process-wide random stream *)

MaxSeedArg == 2
MaxCalls == 2

\* the seed arguments given to PlatformGenerator(seed)
SeedArgs == {NoSeed} \cup (0..MaxSeedArg)

InstIds == {"a", "b"}

\* the variables of the Game session, which these runs do not use
NoGame ==
    /\ player = Player(100, 300)
    /\ camera = Camera
    /\ score = 0
    /\ game_over = FALSE
    /\ keys = NoKeys
    /\ ticks = 0
    /\ changes = 0
    /\ resets = 0
    /\ air = -1
    /\ jumped = FALSE
    /\ last_dash = NoDash
    /\ landings = {}
    /\ platform_log = NoLog

InitSeed ==
    /\ rng \in StartStreams
    /\ insts = NoInsts
    /\ generator = EmptyGenerator(0)
    /\ op = "start"
    /\ calls = 0
    /\ old_x = 0
    /\ NoGame

\* i = PlatformGenerator(seed)
Construct(i, seed) ==
    /\ i \notin DOMAIN insts
    /\ LET r == PlatformGenerator(seed, rng)
       IN /\ insts' = [j \in DOMAIN insts \cup {i} |->
                          IF j = i THEN [g |-> r.g, arg |-> seed, calls |-> 0]
                          ELSE insts[j]]
          /\ rng' = r.rng
    /\ op' = "construct"
    /\ UNCHANGED <<player, generator, camera, score, game_over, keys, ticks,
                   changes, resets, air, jumped, calls, old_x,
                   last_dash, landings, platform_log>>

\* i.generate_platform()
Generate(i) ==
    /\ i \in DOMAIN insts
    /\ insts[i].calls < MaxCalls
    /\ LET r == GenerateFromStream(insts[i].g, rng)
       IN /\ insts' = [insts EXCEPT ![i].g = r.g, ![i].calls = insts[i].calls + 1]
          /\ rng' = r.rng
    /\ op' = "generate"
    /\ UNCHANGED <<player, generator, camera, score, game_over, keys, ticks,
                   changes, resets, air, jumped, calls, old_x,
                   last_dash, landings, platform_log>>

NextSeed ==
    \/ \E i \in InstIds, seed \in SeedArgs : Construct(i, seed)
    \/ \E i \in InstIds : Generate(i)

SpecSeed == InitSeed /\ [][NextSeed]_vars

----------------------------------------------------------------------------
(* One PlatformGenerator driven through its methods *)

MaxScrolls == 3
MaxPos == 4
PosStep == 1400

\* the player positions handed to update(player), in whole units
Positions == {100 + i * PosStep : i \in 0..MaxPos}

InitScroll ==
    /\ \E s \in StartStreams, seed \in SeedArgs :
          LET r == PlatformGenerator(seed, s)
          IN generator = r.g /\ rng = r.rng
    /\ op = "construct"
    /\ calls = 0
    /\ old_x = 0
    /\ insts = NoInsts
    /\ NoGame

\* generator.generate_platform()
GenerateCall ==
    /\ calls < MaxCalls
    /\ LET r == GenerateFromStream(generator, rng)
       IN generator' = r.g /\ rng' = r.rng
    /\ op' = "generate"
    /\ calls' = calls + 1
    /\ old_x' = generator.last_platform_x
    /\ UNCHANGED <<player, camera, score, game_over, keys, ticks, changes, resets,
                   air, jumped, insts,
                   last_dash, landings, platform_log>>

\* generator.update(player) with player.x = P
Scroll(P) ==
    /\ ticks < MaxScrolls
    /\ player' = [player EXCEPT !.x = P * U]
    /\ LET r == PlatformGenerator_update(generator, P * U, rng)
       IN generator' = r.g /\ rng' = r.rng
    /\ op' = "scroll"
    /\ ticks' = ticks + 1
    /\ old_x' = generator.last_platform_x
    /\ UNCHANGED <<camera, score, game_over, keys, changes, resets, air, jumped,
                   calls, insts,
                   last_dash, landings, platform_log>>

NextScroll ==
    \/ GenerateCall
    \/ \E P \in Positions : Scroll(P)

SpecScroll == InitScroll /\ [][NextScroll]_vars

----------------------------------------------------------------------------
(* generate_platform() on its own, for every draw *)

MaxFrontier == 30
MaxGen == 1

\* the raw draws tried: the least, the middle and the greatest
DrawSamples == {0, RandMod \div 2, RandMod - 1}

\* the generator before its (j+1)-th generate_platform() call: inside the
\* constructor's loop for j < 15, after construction from then on
InitGen ==
    /\ \E seed \in 1..MaxSeedArg, j \in 0..MaxFrontier :
          LET r == GenerateN(generate_starting_platform(EmptyGenerator(seed)),
                             SeedRng(seed), j)
          IN generator = r.g /\ rng = r.rng
    /\ op = "construct"
    /\ calls = 0
    /\ old_x = 0
    /\ insts = NoInsts
    /\ NoGame

\* generator.generate_platform() with the raw draws d
GenerateDraw(d) ==
    /\ calls < MaxGen
    /\ generator' = generate_platform(generator, d)
    /\ rng' = IF generator.difficulty < 500 THEN d[3] ELSE d[4]
    /\ op' = "generate"
    /\ calls' = calls + 1
    /\ old_x' = generator.last_platform_x
    /\ UNCHANGED <<player, camera, score, game_over, keys, ticks, changes, resets,
                   air, jumped, insts,
                   last_dash, landings, platform_log>>

NextGen ==
    \E d1 \in DrawSamples, d2 \in DrawSamples, d3 \in DrawSamples, d4 \in DrawSamples :
        GenerateDraw(<<d1, d2, d3, d4>>)

SpecGen == InitGen /\ [][NextGen]_vars

----------------------------------------------------------------------------
(* The player over a generated level: generator.update(player) and
   player.update(keys, platforms), from spawn points above the level *)

MaxPlayerStart == 1
MaxPlayerTicks == 20
MaxHeight == 4
HeightStep == 60

\* the key snapshots fed to Player.update
PlayerKeys ==
    { NoKeys,
      Keys(FALSE, TRUE, FALSE, FALSE, FALSE, FALSE),    \* right
      Keys(FALSE, FALSE, FALSE, TRUE, FALSE, TRUE),     \* down + dash
      Keys(FALSE, FALSE, FALSE, FALSE, TRUE, FALSE) }   \* jump

\* the index of the first platform of type t in a live list, 1 if none
FirstOfType(platforms, t) ==
    LET of_t == {i \in 1..Len(platforms) : platforms[i].platform_type = t}
    IN IF of_t = {} THEN 1 ELSE CHOOSE i \in of_t : \A j \in of_t : i <= j

\* spawn points over a platform: near its left end and over its right end
SpawnXs(platform) == {platform.x + 10, platform.x + platform.width - 15}

SpawnYs(platform) ==
    {platform.y - PLAYER_HEIGHT - i * HeightStep : i \in 0..MaxHeight}

InitPlayer ==
    /\ \E s \in 0..MaxPlayerStart, t \in PlatformType, k \in PlayerKeys :
          LET g == reset_game(s)
              target == g.generator.platforms[FirstOfType(g.generator.platforms, t)]
          IN /\ generator = g.generator
             /\ rng = g.rng
             /\ \E x \in SpawnXs(target), y \in SpawnYs(target) : player = Player(x, y)
             /\ keys = k
    /\ camera = Camera
    /\ score = 0
    /\ game_over = FALSE
    /\ op = "spawn"
    /\ ticks = 0
    /\ changes = 0
    /\ resets = 0
    /\ air = -1
    /\ jumped = FALSE
    /\ last_dash = NoDash
    /\ landings = {}
    /\ platform_log = NoLog
    /\ calls = 0
    /\ old_x = 0
    /\ insts = NoInsts

\* generator.update(player); player.update(keys, platforms)
PlayerStep(k) ==
    /\ k = keys \/ changes < MaxKeyChanges
    /\ LET gu == PlatformGenerator_update(generator, player.x, rng)
           pu == Player_update(player, k, gu.g.platforms)
       IN /\ player' = pu.player
          /\ generator' = [gu.g EXCEPT !.platforms = pu.platforms]
          /\ rng' = gu.rng
    /\ keys' = k
    /\ op' = "tick"
    /\ ticks' = ticks + 1
    /\ changes' = IF k = keys THEN changes ELSE changes + 1
    /\ jumped' = Jumps(player, k)
    /\ air' = AirAfter(air, player', jumped')
    /\ last_dash' = DashAfter(last_dash, player, k)
    /\ landings' = Landings(player, k,
                            PlatformGenerator_update(generator, player.x, rng).g.platforms)
    /\ UNCHANGED <<camera, score, game_over, resets, calls, old_x, insts,
                   platform_log>>

Tick(k) == ticks < MaxPlayerTicks /\ PlayerStep(k)

NextPlayer == \E k \in PlayerKeys : Tick(k)

SpecPlayer == InitPlayer /\ [][NextPlayer]_vars

----------------------------------------------------------------------------
(* The player dashing: the same two calls from the session's spawn point,
   with the dash key held in every direction *)

MaxDashTicks == 64

Directions == {-1, 0, 1}

\* the key snapshots fed to Player.update: the dash key with each of the
\* nine arrow-key directions, and no key
DashKeys ==
    { Keys(dx = -1, dx = 1, dy = -1, dy = 1, FALSE, TRUE) :
          dx \in Directions, dy \in Directions } \cup {NoKeys}

InitDash ==
    /\ \E s \in 0..MaxPlayerStart, k \in DashKeys :
          LET g == reset_game(s)
          IN /\ generator = g.generator
             /\ rng = g.rng
             /\ player = g.player
             /\ keys = k
    /\ camera = Camera
    /\ score = 0
    /\ game_over = FALSE
    /\ op = "spawn"
    /\ ticks = 0
    /\ changes = 0
    /\ resets = 0
    /\ air = -1
    /\ jumped = FALSE
    /\ last_dash = NoDash
    /\ landings = {}
    /\ platform_log = NoLog
    /\ calls = 0
    /\ old_x = 0
    /\ insts = NoInsts

DashTick(k) == ticks < MaxDashTicks /\ PlayerStep(k)

NextDash == \E k \in DashKeys : DashTick(k)

SpecDash == InitDash /\ [][NextDash]_vars

----------------------------------------------------------------------------
(* One Platform driven through its methods *)

MaxUpdates == 160
MaxCrumbleCalls == 2

\* the platform driven: the only one of the list
ThePlatform == generator.platforms[1]

InitPlatform ==
    /\ \E t \in PlatformType, y \in {400} :
          generator = [EmptyGenerator(1) EXCEPT !.platforms = <<Platform(0, y, 100, t)>>]
    /\ rng = 0
    /\ op = "construct"
    /\ calls = 0
    /\ old_x = 0
    /\ insts = NoInsts
    /\ NoGame

\* platform.update()
UpdatePlatform ==
    /\ ticks < MaxUpdates
    /\ generator' = [generator EXCEPT !.platforms[1] = Platform_update(ThePlatform)]
    /\ op' = "platform_update"
    /\ ticks' = ticks + 1
    /\ platform_log' =
          [age |-> IF platform_log.age = -1 THEN -1 ELSE platform_log.age + 1,
           reversed |-> Platform_update(ThePlatform).move_direction
                            # ThePlatform.move_direction]
    /\ UNCHANGED <<rng, player, camera, score, game_over, keys, changes, resets, air,
                   jumped, calls, old_x, insts, last_dash, landings>>

\* platform.start_crumble()
CrumbleCall ==
    /\ calls < MaxCrumbleCalls
    /\ generator' = [generator EXCEPT !.platforms[1] = start_crumble(ThePlatform)]
    /\ op' = "start_crumble"
    /\ calls' = calls + 1
    /\ platform_log' =
          [platform_log EXCEPT !.age = IF platform_log.age = -1 THEN 0
                                       ELSE platform_log.age]
    /\ UNCHANGED <<rng, player, camera, score, game_over, keys, ticks, changes, resets,
                   air, jumped, old_x, insts, last_dash, landings>>

NextPlatform == UpdatePlatform \/ CrumbleCall

SpecPlatform == InitPlatform /\ [][NextPlatform]_vars

----------------------------------------------------------------------------
(* Properties *)

Last(q) == q[Len(q)]

Clamp(v, lo, hi) == Max(lo, Min(v, hi))

\* what the claims compare of a platform: x, y, width and type
PlatformView(p) == <<p.x, p.y, p.width, p.platform_type>>

PlatformSequence(g) == [i \in 1..Len(g.platforms) |-> PlatformView(g.platforms[i])]

\* C1: two PlatformGenerator instances constructed with the same integer
\* seed hold the same platform sequence after the same number of
\* generate_platform() calls on each, whatever the order of the
\* constructions and calls.
C1_SeedDeterminism ==
    \A i \in DOMAIN insts, j \in DOMAIN insts :
        ( /\ insts[i].arg = insts[j].arg
          /\ insts[i].arg # NoSeed
          /\ insts[i].calls = insts[j].calls )
        => PlatformSequence(insts[i].g) = PlatformSequence(insts[j].g)

\* the same, for a non-zero seed and two instances that have only been
\* constructed: this much the code does guarantee
C1_FreshNonZeroSeed ==
    \A i \in DOMAIN insts, j \in DOMAIN insts :
        ( /\ insts[i].arg = insts[j].arg
          /\ insts[i].arg \notin {NoSeed, 0}
          /\ insts[i].calls = 0
          /\ insts[j].calls = 0 )
        => PlatformSequence(insts[i].g) = PlatformSequence(insts[j].g)

\* C2: right after update(player) with player.x = P, no platform of the
\* live list, kept or generated by that call, has
\* x <= (P - screen_width / 3) - 500.
BeyondPruneLine(p) ==
    3 * p.x * U > 3 * player.x - (SCREEN_WIDTH + 3 * PRUNE_MARGIN) * U

C2_Pruning ==
    op = "scroll" =>
        \A i \in 1..Len(generator.platforms) : BeyondPruneLine(generator.platforms[i])

\* what the code does guarantee: right after update(player) with
\* player.x = P, no platform kept from before the call has
\* x <= (P - screen_width / 3) - 500.  (The platforms generated by the call
\* lie beyond the old frontier old_x, and are not pruned by it.)
C2_KeptPlatforms ==
    op = "scroll" =>
        \A i \in 1..Len(generator.platforms) :
            generator.platforms[i].x <= old_x => BeyondPruneLine(generator.platforms[i])

\* C3: in every state of a PlatformGenerator, difficulty is
\* clamp(last_platform_x / 1000, 0, 5) (here in thousandths).
C3_Difficulty ==
    generator.difficulty = Clamp(generator.last_platform_x, 0, 5 * 1000)

\* an update that took the frontier past 5000, where the clamp decides
C3_Witness ==
    /\ op = "scroll"
    /\ generator.last_platform_x > 5 * 1000
    /\ generator.difficulty = 5 * 1000

\* C4: every platform generate_platform() produces has width >= 60 and lies
\* strictly to the right of the previously generated one, and becomes the
\* new frontier.
C4_WidthAndFrontier ==
    op = "generate" =>
        /\ Last(generator.platforms).width >= 60
        /\ Last(generator.platforms).x > old_x
        /\ generator.last_platform_x = Last(generator.platforms).x

\* a platform generated at difficulty 5 whose width was raised to the floor
C4_Witness ==
    /\ op = "generate"
    /\ old_x >= 5 * 1000
    /\ Last(generator.platforms).width = 60

\* C9: right after PlatformGenerator(seed), for any seed, the first platform
\* of the live list is Normal at x = 0, y = 400 with width 250.
C9_StartingPlatform ==
    \A i \in DOMAIN insts :
        insts[i].calls = 0 =>
            /\ Len(insts[i].g.platforms) = 1 + INITIAL_PLATFORMS
            /\ PlatformView(insts[i].g.platforms[1]) = <<0, 400, 250, NORMAL>>
            /\ insts[i].g.platforms[1].active

\* two instances seeded differently, with different second platforms
C9_Witness ==
    \E i \in DOMAIN insts, j \in DOMAIN insts :
        /\ insts[i].calls = 0
        /\ insts[j].calls = 0
        /\ insts[i].g.seed # insts[j].g.seed
        /\ PlatformView(insts[i].g.platforms[2]) # PlatformView(insts[j].g.platforms[2])

\* C5: game_over goes from false to true in the Game.update that leaves
\* player.y above camera y (as get_y() gives it) + screen_height + 100;
\* once it is true every Game.update leaves player, generator, camera, score
\* and game_over as they are; and it goes back to false only through
\* reset_game.
C5_Terminal ==
    [][ /\ (op' = "update") =>
              ( /\ ~game_over
                /\ game_over' <=> (player'.y > (TruncDiv(camera'.y, U) + SCREEN_HEIGHT + 100) * U) )
        /\ (game_over /\ op' # "reset") =>
              ( /\ op' = "skip"
                /\ UNCHANGED <<player, generator, camera, score, game_over>> )
        /\ (~game_over /\ game_over') => op' = "update"
        /\ (game_over /\ ~game_over') => op' = "reset"
      ]_vars

\* a Game.update made when the game was over
C5_Witness == game_over /\ op = "skip"

\* the session so far was ticked with no key held
NoInput == keys = NoKeys /\ changes = 0

\* C6: a fresh session ticked with no keys held: the player falls from
\* (100, 300) under gravity alone until it lands on the starting platform,
\* at y = 400 - player height with vel_y = 0 and on_ground, and stays there.
Falling ==
    /\ ~player.on_ground
    /\ player.vel_y = GRAVITY * ticks
    /\ 2 * player.y = 2 * 300 * U + GRAVITY * ticks * (ticks + 1)
    /\ player.y + PLAYER_HEIGHT * U <= 400 * U

StandingAt(y) ==
    /\ player.on_ground
    /\ player.vel_y = 0
    /\ player.y = y * U
    /\ ~game_over

C6_SpawnLanding ==
    NoInput =>
        /\ player.x = 100 * U
        /\ player.vel_x = 0
        /\ Falling \/ StandingAt(400 - PLAYER_HEIGHT)

\* the first generated platform reaches under the spawn point with its top
\* where the falling player can land on it
Intercepts(p) == p.x < 100 + PLAYER_WIDTH /\ p.y \in 335..394

\* what the code does: the player falls from (100, 300) under gravity alone
\* until it lands, with vel_y = 0 and on_ground, on the starting platform
\* (y = 400 - player height) or, when the first generated platform reaches
\* under the player with its top at 335..394, on that platform
\* (y = its top - player height), and stays at that y.
C6_CodeLanding ==
    NoInput =>
        /\ player.x = 100 * U
        /\ player.vel_x = 0
        /\ \/ Falling
           \/ LET first == generator.platforms[2]
              IN IF Intercepts(first)
                 THEN StandingAt(first.y - PLAYER_HEIGHT)
                 ELSE StandingAt(400 - PLAYER_HEIGHT)

\* C7: after the player left the ground without jumping, a jump input with
\* vel_y >= 0 succeeds on each of the COYOTE_TIME ticks after the tick in
\* which the ground was left and does nothing on the tick after those; and
\* a jump fires at most once in the air.
C7_CoyoteWindow ==
    [][ (op' = "update" /\ keys'.z /\ player.vel_y >= 0) =>
            /\ (air \in 1..COYOTE_TIME) => jumped'
            /\ (air = COYOTE_TIME + 1) => ~jumped'
            /\ (air = -1) => ~jumped'
      ]_vars

\* what the code does: the jump succeeds on COYOTE_TIME - 1 ticks after the
\* tick in which the ground was left, and on none after
C7_CodeWindow ==
    [][ (op' = "update" /\ keys'.z /\ player.vel_y >= 0) =>
            /\ (air \in 1..(COYOTE_TIME - 1)) => jumped'
            /\ (air >= COYOTE_TIME) => ~jumped'
            /\ (air = -1) => ~jumped'
      ]_vars

\* the platforms Player.update(k, ...) tests in the current state: the live
\* list after generator.update(player)
Tested == PlatformGenerator_update(generator, player.x, rng).g.platforms

\* the collision with platforms[i] is tested on the moved player m and is a
\* landing: no earlier platform of the list was landed on
LandingOn(m, platforms, i) ==
    /\ platforms[i].active
    /\ check_collision(m, platforms[i])
    /\ Lands(m, platforms[i])
    /\ \A j \in 1..(i - 1) :
          ~(platforms[j].active /\ check_collision(m, platforms[j]) /\ Lands(m, platforms[j]))

\* C8: whenever a collision with a Bouncy platform is a landing (incoming
\* vel_y > 0, pre-move bottom within tolerance), the player ends
\* Player.update with on_ground = false and vel_y = 1.5 * JUMP_STRENGTH,
\* whatever the incoming vel_y and the platforms tested later.
C8_BouncyLanding ==
    [][ \A i \in 1..Len(Tested) :
            ( /\ op' = "tick"
              /\ Tested[i].platform_type = BOUNCY
              /\ LandingOn(Moved(player, keys'), Tested, i) )
            => /\ ~player'.on_ground
               /\ 2 * player'.vel_y = 3 * JUMP_STRENGTH * U
               /\ player'.y = (Tested[i].y - PLAYER_HEIGHT) * U
      ]_vars

\* the player just bounced off a Bouncy platform after a fall of ten ticks
\* or more, and overlaps a platform tested after it
C8_Witness ==
    /\ op = "tick"
    /\ ticks >= 10
    /\ ~player.on_ground
    /\ 2 * player.vel_y = 3 * JUMP_STRENGTH * U
    /\ \E i \in 1..Len(generator.platforms) :
          /\ generator.platforms[i].platform_type = BOUNCY
          /\ player.y = (generator.platforms[i].y - PLAYER_HEIGHT) * U
          /\ \E j \in (i + 1)..Len(generator.platforms) :
                check_collision(player, generator.platforms[j])

\* C10: within a session score never decreases from one Game.update to the
\* next, and after each update that ran it is
\* max(previous score, floor(player.x / 10)).
C10_Score ==
    [][ (op' \in {"update", "skip"}) =>
            /\ score' >= score
            /\ (op' = "update") => score' = Max(score, player'.x \div (10 * U))
      ]_vars

\* the player walked back past the origin with the score kept
C10_Witness == op = "update" /\ player.x < 0 /\ score > 0

\* C11: for every pair of consecutively generated platforms, the starting
\* platform and the first generated one included, the later platform's x is
\* at or beyond the earlier platform's right edge (x + width): their
\* horizontal extents never overlap.
C11_NoOverlap ==
    \A i \in 1..(Len(generator.platforms) - 1) :
        generator.platforms[i + 1].x >=
            generator.platforms[i].x + generator.platforms[i].width

\* what the code does guarantee: consecutive platforms are at least 100
\* apart from left edge to left edge (base spacing 150, offset at least -50)
C11_CodeSpacing ==
    \A i \in 1..(Len(generator.platforms) - 1) :
        generator.platforms[i + 1].x >= generator.platforms[i].x + 100

Sign(v) == IF v > 0 THEN 1 ELSE IF v < 0 THEN -1 ELSE 0

\* the dash ends in this step
DashEnds == player.dashing /\ ~player'.dashing

\* C12: on the tick a dash ends, vel_x is +PLAYER_SPEED or -PLAYER_SPEED
\* with the sign of the horizontal component of the dash direction, for
\* every direction the dash started with.
C12_DashOut ==
    [][ DashEnds =>
            /\ Abs(player'.vel_x) = PLAYER_SPEED * U
            /\ Sign(player'.vel_x) = last_dash.x
      ]_vars

\* what the code does: +PLAYER_SPEED after a dash with a rightward
\* component, -PLAYER_SPEED after every other dash, the vertical ones
\* included
C12_CodeDashOut ==
    [][ DashEnds =>
            player'.vel_x = IF last_dash.x > 0 THEN PLAYER_SPEED * U
                            ELSE -PLAYER_SPEED * U
      ]_vars

\* the x coordinates of a live list, in list order
Xs(platforms) == [i \in 1..Len(platforms) |-> platforms[i].x]

Ascending(xs) == \A i \in 1..(Len(xs) - 1) : xs[i] < xs[i + 1]

\* C13: after any sequence of generate_platform() and update(player) calls
\* the live list is in strictly ascending x; a call removes only a prefix of
\* the list and appends only at its end, beyond the frontier it found, so
\* nothing between two kept platforms is removed or moved and no pruned
\* platform comes back.
C13_ListOrder ==
    [][ LET old == Xs(generator.platforms)
            new == Xs(generator'.platforms)
        IN /\ Ascending(old)
           /\ Ascending(new)
           /\ \E kept \in 0..Len(old) :
                 /\ Len(new) >= kept
                 /\ SubSeq(new, 1, kept) = SubSeq(old, Len(old) - kept + 1, Len(old))
                 /\ \A i \in (kept + 1)..Len(new) : new[i] > generator.last_platform_x
           /\ generator'.last_platform_x >= generator.last_platform_x
           /\ \A i \in 1..Len(old) : old[i] <= generator.last_platform_x
      ]_vars

\* an update that pruned the starting platform, kept an older platform and
\* generated a new one
C13_Witness ==
    /\ op = "scroll"
    /\ generator.platforms[1].x > 0
    /\ generator.platforms[1].x <= old_x
    /\ generator.last_platform_x > old_x

\* the least and the greatest of a non-empty set of numbers
Least(S) == CHOOSE i \in S : \A j \in S : i <= j

Greatest(S) == CHOOSE i \in S : \A j \in S : i >= j

\* the player as a landing on the platform leaves it
LandedOn(platform) ==
    /\ player.y = (platform.y - PLAYER_HEIGHT) * U
    /\ IF platform.platform_type = BOUNCY
       THEN 2 * player.vel_y = 3 * JUMP_STRENGTH * U /\ ~player.on_ground
       ELSE player.vel_y = 0 /\ player.on_ground

\* C14: when the player box overlaps several active platforms in one tick,
\* each is passed to collision resolution in platform order and a later
\* platform's resolution overwrites the result (y, vel_y, on_ground) of an
\* earlier platform's landing: the last platform that qualifies decides.
C14_LaterOverwrites ==
    (op = "tick" /\ Cardinality(landings) >= 2) =>
        LandedOn(generator.platforms[Greatest(landings)])

\* C14 as amended: the platforms are resolved in platform order and the
\* first landing decides: it leaves vel_y <= 0, so no later platform of the
\* same tick meets the landing condition and none overwrites its result.
C14_FirstLandingWins ==
    (op = "tick" /\ landings # {}) =>
        LandedOn(generator.platforms[Least(landings)])

\* a tick in which two platforms at different heights met the landing
\* condition for the player as moved
C14_Witness ==
    /\ op = "tick"
    /\ Cardinality(landings) >= 2
    /\ generator.platforms[Least(landings)].y # generator.platforms[Greatest(landings)].y

\* C15: once start_crumble() has set a Crumbling platform's countdown to 30,
\* further start_crumble() calls before it expires leave crumble_timer as it
\* is; the platform becomes inactive exactly at its 30th Platform.update()
\* after that; from then on get_active_platforms() leaves it out and it
\* never becomes active again; a platform of another type never becomes
\* inactive.
C15_CrumbleLifecycle ==
    [][ LET before == ThePlatform
            after == generator'.platforms[1]
            age == platform_log'.age
        IN /\ (op' = "start_crumble" /\ before.crumble_timer > 0)
                 => after.crumble_timer = before.crumble_timer
           /\ (op' = "start_crumble" /\ platform_log.age = -1)
                 => after.crumble_timer = CRUMBLE_TIME
           /\ after.platform_type = CRUMBLING
                 => /\ age < CRUMBLE_TIME => after.active
                    /\ age \in 0..(CRUMBLE_TIME - 1) => after.crumble_timer = CRUMBLE_TIME - age
                    /\ age >= CRUMBLE_TIME => ~after.active
           /\ after.platform_type # CRUMBLING => after.active
           /\ ~before.active => ~after.active
           /\ get_active_platforms(generator') =
                 IF after.active THEN generator'.platforms ELSE << >>
      ]_vars

\* a Crumbling platform whose countdown ran out, after a second
\* start_crumble() call made while it was running
C15_Witness ==
    /\ ThePlatform.platform_type = CRUMBLING
    /\ ~ThePlatform.active
    /\ ThePlatform.crumble_timer = 0
    /\ calls = 2
    /\ platform_log.age = CRUMBLE_TIME

\* C16: the cooldown starts on the tick of the dash and counts down while
\* the dash runs; with the dash key held a new dash starts exactly
\* DASH_COOLDOWN ticks after the previous one started, and whatever the
\* input no dash starts sooner.
C16_DashRateLimit ==
    [][ LET starts == last_dash'.age = 0
        IN /\ (starts /\ last_dash.age >= 0) => last_dash.age + 1 = DASH_COOLDOWN
           /\ (keys'.x /\ last_dash.age = DASH_COOLDOWN - 1) => starts
           /\ last_dash'.age \in 0..(DASH_COOLDOWN - 1)
                 => /\ player'.dash_cooldown = DASH_COOLDOWN - 1 - last_dash'.age
                    /\ player'.dashing <=> last_dash'.age < DASH_DURATION - 1
      ]_vars

\* a second dash has just started
C16_Witness == last_dash.age = 0 /\ ticks > DASH_COOLDOWN /\ player.dashing

\* the platforms of the live list generated by the last operation
Generated == {i \in 1..Len(generator.platforms) : generator.platforms[i].x > old_x}

\* C17: for every player position the generation loop of update(player)
\* ends after finitely many generate_platform() calls (each one advances the
\* frontier by 100 or more, so it makes no call once the frontier is far
\* enough and fewer than (distance to cover) / 100 + 1 otherwise), and on
\* return last_platform_x >= (player.x - screen_width / 3) + screen_width + 500.
C17_Lookahead ==
    op = "scroll" =>
        LET short == player.x + (SCREEN_WIDTH + PRUNE_MARGIN - SCREEN_WIDTH \div 3) * U
                         - old_x * U
        IN /\ 3 * generator.last_platform_x * U >=
                  3 * player.x + (2 * SCREEN_WIDTH + 3 * PRUNE_MARGIN) * U
           /\ short <= 0 => Generated = {}
           /\ short > 0 => Cardinality(Generated) * 100 * U < short + 100 * U

\* an update that had to generate ten platforms or more
C17_Witness == op = "scroll" /\ Cardinality(Generated) >= 10

\* C18: a Moving platform moves by move_speed (2) in its current direction on
\* every Platform.update() and reverses exactly on an update that leaves
\* |y - original_y| above move_range (100); so |y - original_y| never
\* exceeds move_range + move_speed (102) and no two consecutive updates
\* both reverse.
C18_MovingPlatform ==
    [][ (ThePlatform.platform_type = MOVING /\ op' = "platform_update") =>
            LET p == ThePlatform
                q == ThePlatform'
            IN /\ q.y = p.y + p.move_speed * p.move_direction
               /\ p.move_speed = 2 /\ p.move_range = 100
               /\ q.move_direction \in {p.move_direction, -p.move_direction}
               /\ q.move_direction = -p.move_direction
                      <=> Abs(q.y - q.original_y) > q.move_range
               /\ Abs(p.y - p.original_y) <= p.move_range + p.move_speed
               /\ Abs(q.y - q.original_y) <= q.move_range + q.move_speed
               /\ ~(platform_log.reversed /\ platform_log'.reversed) ]_vars

\* a Moving platform has just reversed for the second time, above its
\* original height
C18_Witness ==
    /\ op = "platform_update"
    /\ ThePlatform.platform_type = MOVING
    /\ platform_log.reversed
    /\ ThePlatform.move_direction = 1
    /\ ThePlatform.y = ThePlatform.original_y - ThePlatform.move_range - ThePlatform.move_speed

\* C19: at the end of every Player.update, 0 <= dash_timer <= DASH_DURATION,
\* 0 <= dash_cooldown <= 60 and 0 <= coyote_timer <= COYOTE_TIME; dashing is
\* true exactly when dash_timer > 0; whenever dashing is true dash_cooldown =
\* dash_timer + 50; so whenever the cooldown test of the dash condition
\* passes the player is not dashing, and the "not dashing" test never
\* decides whether a dash starts.
C19_Timers ==
    /\ player.dash_timer \in 0..DASH_DURATION
    /\ player.dash_cooldown \in 0..DASH_COOLDOWN
    /\ player.coyote_timer \in 0..COYOTE_TIME
    /\ player.dashing <=> player.dash_timer > 0
    /\ player.dashing => player.dash_cooldown = player.dash_timer + 50
    /\ \A k \in DashKeys :
          DashFires(player, k) <=> (k.x /\ player.dash_cooldown <= 0)

\* the last update of a dash but one, with the dash key held
C19_Witness ==
    /\ op = "tick"
    /\ keys.x
    /\ player.dashing
    /\ player.dash_timer = 1
    /\ player.dash_cooldown = 51

\* the player stands on the platform: bottom edge at its top, box over it
StandsOn(platform) ==
    /\ platform.active
    /\ platform.platform_type # BOUNCY
    /\ player.y + player.height * U = platform.y * U
    /\ player.x < (platform.x + platform.width) * U
    /\ player.x + player.width * U > platform.x * U

\* C20: on_ground is recomputed on every Player.update: at its end on_ground
\* is true exactly when the first landing of the tick was on a non-Bouncy
\* platform; on_ground = true implies vel_y = 0 and the bottom edge
\* (y + height) equal to the top y of an active, non-Bouncy platform the
\* player box met in that tick; on_ground is never true after a tick
\* without a landing, nor before the first tick.
C20_Grounded ==
    /\ op \notin {"tick", "update"} => ~player.on_ground
    /\ op \in {"tick", "update"} =>
          /\ player.on_ground <=>
                 /\ landings # {}
                 /\ generator.platforms[Least(landings)].platform_type # BOUNCY
          /\ player.on_ground =>
                 /\ player.vel_y = 0
                 /\ \E i \in landings : StandsOn(generator.platforms[i])
          /\ landings = {} => ~player.on_ground

\* the player has come to stand on a Moving platform below its original
\* height
C20_Witness ==
    /\ op = "tick"
    /\ player.on_ground
    /\ landings # {}
    /\ generator.platforms[Least(landings)].platform_type = MOVING
    /\ generator.platforms[Least(landings)].y > generator.platforms[Least(landings)].original_y

====
